---- MODULE Spec2Model ----
(***************************************************************************)
(* A model of the Google Apps Reporting client (src/reporting.py) and of   *)
(* the stale-account scan that reads its CSV output (src/data.py).         *)
(*                                                                         *)
(* Text is modelled as TLA+ strings, read character by character with      *)
(* Len, SubSeq and \o, so that slicing, splitting, prefix tests, pattern    *)
(* searches and number formatting are computed the way the Python code     *)
(* computes them.                                                          *)
(***************************************************************************)
EXTENDS Integers, Sequences, FiniteSets, TLC

VARIABLES
    \* ---- src/data.py: lastWeekControl / whiteList
    spc,        \* position of the scan: start, loop, body, checked, done, error
    wList,      \* the list whiteList() returned
    warned,     \* whether whiteList() printed its warning
    row,        \* the row the for loop has bound (NoRow between iterations)
    printed,    \* whether the print of line 28 ran for the bound row
    output,     \* the accounts printed so far, in order
    nrows,      \* rows read from the report file so far
    \* ---- src/reporting.py: ReportRunner
    runner,     \* the attributes of the ReportRunner instance
    call,       \* the last call on the runner: what it posted, how it ended
    ncalls,     \* calls made on the runner so far
    stdout,     \* what the process printed (a sequence of texts)
    outfile,    \* content of the file named by --out (Absent when not there)
    \* ---- src/reporting.py: main
    opts,       \* the parsed command line of main
    exit,       \* <<status>> once main has ended, <<>> before
    \* ---- src/reporting.py: ReportError.FromXml
    xml,        \* the document handed to FromXml
    err,        \* the five attributes of the ReportError
    \* ---- src/reporting.py: ReportRunner.GetLatestReportDate
    now,        \* time.time() at the call, in seconds since the epoch
    latest      \* the date string returned

scanVars   == <<spc, wList, warned, row, printed, output, nrows>>
runnerVars == <<runner, call, ncalls, stdout, outfile>>
mainVars   == <<opts, exit>>
xmlVars    == <<xml, err>>
dateVars   == <<now, latest>>
vars == <<scanVars, runnerVars, mainVars, xmlVars, dateVars>>

None   == "<None>"      \* Python's None (no text of the model has this value)
Absent == "<absent>"    \* a file that does not exist

(***************************************************************************)
(* Python string primitives                                                *)
(***************************************************************************)
Min(a, b) == IF a < b THEN a ELSE b

\* s[a:b] for 0 <= a, 0 <= b
Slice(s, a, b) == SubSeq(s, Min(a, Len(s)) + 1, Min(b, Len(s)))

\* s[a:]
SliceFrom(s, a) == SubSeq(s, Min(a, Len(s)) + 1, Len(s))

CharAt(s, i) == SubSeq(s, i, i)

\* s.startswith(p)
StartsWith(s, p) == Len(s) >= Len(p) /\ SubSeq(s, 1, Len(p)) = p

\* s.find(p, from): the least 1-based index >= from at which p occurs, 0 if none
RECURSIVE FindFrom(_, _, _)
FindFrom(s, p, from) ==
    IF from + Len(p) - 1 > Len(s) THEN 0
    ELSE IF SubSeq(s, from, from + Len(p) - 1) = p THEN from
    ELSE FindFrom(s, p, from + 1)

Digits == {"0", "1", "2", "3", "4", "5", "6", "7", "8", "9"}

DigitVal(c) ==
    CASE c = "0" -> 0 [] c = "1" -> 1 [] c = "2" -> 2 [] c = "3" -> 3
      [] c = "4" -> 4 [] c = "5" -> 5 [] c = "6" -> 6 [] c = "7" -> 7
      [] c = "8" -> 8 [] c = "9" -> 9

DigitChar(d) == CharAt("0123456789", d + 1)

AllDigits(s) == \A i \in 1..Len(s) : CharAt(s, i) \in Digits

\* int(s) raises ValueError unless s is a decimal numeral (the texts of the
\* model hold no sign and no blank, which int() would also accept)
IntOk(s) == Len(s) > 0 /\ AllDigits(s)

RECURSIVE IntOf(_)
IntOf(s) ==
    IF Len(s) = 0 THEN 0
    ELSE 10 * IntOf(SubSeq(s, 1, Len(s) - 1)) + DigitVal(CharAt(s, Len(s)))

\* '%0<w>i' % n for n >= 0
RECURSIVE Pad(_, _)
Pad(n, w) ==
    IF n < 10 /\ w <= 1 THEN DigitChar(n)
    ELSE Pad(n \div 10, w - 1) \o DigitChar(n % 10)

(***************************************************************************)
(* src/data.py                                                             *)
(***************************************************************************)
MaxRows   == 2      \* rows of the report file read in one scan
MaxWlRows == 2      \* rows of whiteList.csv

Accounts  == {"alice", "bob"}
WlRows    == {<<"bob">>, <<>>}      \* a row of whiteList.csv; <<>> is a blank line
Years     == {2023, 2024}
Months    == {1, 2, 3, 12}
Days      == {1, 6, 7, 28, 29}

\* a YYYYMMDD field of the accounts report
Ymd(y, m, d) == Pad(y, 4) \o Pad(m, 2) \o Pad(d, 2)

DateFields == {Ymd(y, m, d) : y \in Years, m \in Months, d \in Days}

\* The fields of a report row that the scan reads: n fields in all, of which
\* f0, f2 and f10 are fields 0, 2 and 10.
DataRows   == [n : {11}, f0 : DateFields, f2 : Accounts, f10 : DateFields]
HeaderRow  == [n |-> 11, f0 |-> "date", f2 |-> "account_name", f10 |-> "last_login_date"]
NeverRow   == [n |-> 11, f0 |-> "20240310", f2 |-> "alice", f10 |-> "never"]
BlankRow   == [n |-> 0, f0 |-> "", f2 |-> "", f10 |-> ""]
Rows       == DataRows \cup {HeaderRow, NeverRow, BlankRow}
NoRow      == [n |-> 0, f0 |-> None, f2 |-> None, f10 |-> None]

\* whiteList.csv: whether it can be opened, and its rows
WlFiles ==
    {[exists |-> FALSE, rows |-> <<>>]} \cup
    {[exists |-> TRUE, rows |-> f] : f \in UNION {[1..k -> WlRows] : k \in 0..MaxWlRows}}

\* whiteList(): the first field of every row; the bare except ends the
\* reading at a missing file and at a row without a first field, prints the
\* warning and returns what was appended so far.
RECURSIVE WlRead(_, _)
WlRead(f, acc) ==
    IF f = <<>> THEN [list |-> acc, warned |-> FALSE]
    ELSE IF Len(Head(f)) = 0 THEN [list |-> acc, warned |-> TRUE]
    ELSE WlRead(Tail(f), Append(acc, Head(f)[1]))

whiteList(f) ==
    IF ~f.exists THEN [list |-> <<>>, warned |-> TRUE] ELSE WlRead(f.rows, <<>>)

InList(x, l) == \E i \in 1..Len(l) : l[i] = x

todayDate(r)     == Slice(r.f0, 0, 4) \o "-" \o Slice(r.f0, 4, 6) \o "-" \o Slice(r.f0, 6, 8)
lastLoginDate(r) == Slice(r.f10, 0, 4) \o "-" \o Slice(r.f10, 4, 6) \o "-" \o Slice(r.f10, 6, 8)

\* the six strings lines 24-26 hand to int()
DiffArgs(r) ==
    <<Slice(todayDate(r), 0, 4), Slice(lastLoginDate(r), 0, 4),
      Slice(todayDate(r), 5, 7), Slice(lastLoginDate(r), 5, 7),
      Slice(todayDate(r), 8, 10), Slice(lastLoginDate(r), 8, 10)>>

yearDiff(r)  == IntOf(DiffArgs(r)[1]) - IntOf(DiffArgs(r)[2])
monthDiff(r) == IntOf(DiffArgs(r)[3]) - IntOf(DiffArgs(r)[4])
dayDiff(r)   == IntOf(DiffArgs(r)[5]) - IntOf(DiffArgs(r)[6])

\* line 27 with the day threshold off by one
StaleMut(r, wl) ==
    (yearDiff(r) >= 1 \/ monthDiff(r) >= 1 \/ dayDiff(r) > 6) /\ ~InList(r.f2, wl)
\* line 27 without the month comparison
StaleNoMonth(r, wl) ==
    (yearDiff(r) >= 1 \/ dayDiff(r) >= 6) /\ ~InList(r.f2, wl)
\* line 27
Stale(r, wl) ==
    (yearDiff(r) >= 1 \/ monthDiff(r) >= 1 \/ dayDiff(r) >= 6) /\ ~InList(r.f2, wl)

\* The body of the loop raises IndexError on a row of fewer than 11 fields
\* and ValueError when a slice is no numeral.
RowRaises(r) ==
    \/ r.n < 11
    \/ /\ todayDate(r) # "date--"
       /\ \E i \in 1..6 : ~IntOk(DiffArgs(r)[i])

LoadWhiteList ==
    /\ spc = "start"
    /\ \E f \in WlFiles :
          /\ wList' = whiteList(f).list
          /\ warned' = whiteList(f).warned
    /\ spc' = "loop"
    /\ UNCHANGED <<row, printed, output, nrows>>

\* "for row in rows" yields the next row of the report file
ReadRow ==
    /\ spc = "loop"
    /\ nrows < MaxRows
    /\ \E r \in Rows : row' = r
    /\ nrows' = nrows + 1
    /\ spc' = "body"
    /\ UNCHANGED <<wList, warned, printed, output>>

\* lines 21-28 on the bound row
CheckRow ==
    /\ spc = "body"
    /\ IF RowRaises(row)
       THEN /\ spc' = "error"
            /\ UNCHANGED <<printed, output>>
       ELSE /\ spc' = "checked"
            /\ printed' = (todayDate(row) # "date--" /\ Stale(row, wList))
            /\ output' = IF printed' THEN Append(output, row.f2) ELSE output
    /\ UNCHANGED <<wList, warned, row, nrows>>

\* the loop goes back to its head; the old binding of row is not read again
NextRow ==
    /\ spc = "checked"
    /\ spc' = "loop"
    /\ row' = NoRow
    /\ printed' = FALSE
    /\ UNCHANGED <<wList, warned, output, nrows>>

\* the reader is exhausted
EndOfFile ==
    /\ spc = "loop"
    /\ spc' = "done"
    /\ UNCHANGED <<wList, warned, row, printed, output, nrows>>

(***************************************************************************)
(* src/reporting.py: ReportError                                           *)
(***************************************************************************)
MaxFrags == 3       \* pieces an error document is put together from

XmlFrags ==
    {"<?xml version='1.0'?>", "\n",
     "<status>500</status>", "<status>400</status>",
     "<reason>Quota</reason>",
     "<extendedMessage>m</extendedMessage>",
     "<result>r</result>",
     "<type>t</type>",
     "<reportType>daily</reportType>",
     "<content-type>csv</content-type>",
     "<status/>", "<reason>cut"}

RECURSIVE Concat(_)
Concat(fs) == IF fs = <<>> THEN "" ELSE Head(fs) \o Concat(Tail(fs))

XmlDocs == {Concat(fs) : fs \in UNION {[1..k -> XmlFrags] : k \in 0..MaxFrags}}

ExampleDoc == "<?xml version='1.0'?>" \o "<status>500</status>" \o "<reason>Quota</reason>"

\* ReportError.__init__
NewReportError ==
    [status |-> None, reason |-> None, extended_message |-> None,
     result |-> None, type |-> None]

NoMatch == [found |-> FALSE, group |-> None]

\* the same search with a greedy group, (.*) in place of (.*?)
RECURSIVE LastFind(_, _, _)
LastFind(s, p, from) ==
    LET i == FindFrom(s, p, from)
    IN  IF i = 0 THEN 0
        ELSE LET k == LastFind(s, p, i + 1) IN IF k = 0 THEN i ELSE k

PatternSearchGreedy(s, lit, from) ==
    LET i == FindFrom(s, lit, from)
        j == IF i = 0 THEN 0 ELSE LastFind(s, "<", i + Len(lit))
    IN  IF j = 0 THEN NoMatch
        ELSE [found |-> TRUE, group |-> SubSeq(s, i + Len(lit), j - 1)]

\* re.compile(lit + '(.*?)<', re.DOTALL).search(s), tried from position
\* `from` on: the leftmost place where lit occurs and a "<" follows; the
\* group is the text up to the first such "<".
RECURSIVE PatternSearch(_, _, _)
PatternSearch(s, lit, from) ==
    LET i == FindFrom(s, lit, from)
    IN  IF i = 0 THEN NoMatch
        ELSE LET j == FindFrom(s, "<", i + Len(lit))
             IN  IF j # 0
                 THEN [found |-> TRUE, group |-> SubSeq(s, i + Len(lit), j - 1)]
                 ELSE PatternSearch(s, lit, i + 1)

_STATUS_PATTERN(s)           == PatternSearch(s, "status>", 1)
_REASON_PATTERN(s)           == PatternSearch(s, "reason>", 1)
_EXTENDED_MESSAGE_PATTERN(s) == PatternSearch(s, "extendedMessage>", 1)
_RESULT_PATTERN(s)           == PatternSearch(s, "result>", 1)
_TYPE_PATTERN(s)             == PatternSearch(s, "type>", 1)

\* ReportError.FromXml on the error e
FromXml(e, s) ==
    LET m1 == _STATUS_PATTERN(s)
        m2 == _REASON_PATTERN(s)
        m3 == _EXTENDED_MESSAGE_PATTERN(s)
        m4 == _RESULT_PATTERN(s)
        m5 == _TYPE_PATTERN(s)
    IN  [status           |-> IF m1.found THEN m1.group ELSE e.status,
         reason           |-> IF m2.found THEN m2.group ELSE e.reason,
         extended_message |-> IF m3.found THEN m3.group ELSE e.extended_message,
         result           |-> IF m4.found THEN m4.group ELSE e.result,
         type             |-> IF m5.found THEN m5.group ELSE e.type]

\* a ReportError is constructed and populated from a document
DecodeError ==
    /\ xml = None
    /\ \E d \in XmlDocs :
          /\ xml' = d
          /\ err' = FromXml(NewReportError, d)


(***************************************************************************)
(* src/reporting.py: ReportRunner.GetLatestReportDate                      *)
(***************************************************************************)
MaxHours == 47      \* whole hours added to a base instant

_HOURS == 60 * 60
_DAYS  == 24 * _HOURS

\* midnight UTC of 2023-03-01, 2023-12-31, 2024-02-29 and 2024-03-10
BaseInstants == {19417 * 86400, 19722 * 86400, 19782 * 86400, 19792 * 86400}

\* the values time.time() takes
NowSet == {b + h * 3600 + s : b \in BaseInstants, h \in 0..MaxHours, s \in {0, 3599}}

\* time.gmtime(t): the fields [0], [1], [2] and [3] of the struct_time
gmtime(t) ==
    LET days == t \div 86400
        z    == days + 719468
        era  == z \div 146097
        doe  == z - era * 146097
        yoe  == (doe - doe \div 1460 + doe \div 36524 - doe \div 146096) \div 365
        doy  == doe - (365 * yoe + yoe \div 4 - yoe \div 100)
        mp   == (5 * doy + 2) \div 153
        d    == doy - (153 * mp + 2) \div 5 + 1
        m    == IF mp < 10 THEN mp + 3 ELSE mp - 9
        y    == yoe + era * 400 + (IF m <= 2 THEN 1 ELSE 0)
    IN  <<y, m, d, (t % 86400) \div 3600>>

\* '%04i-%02i-%02i' % (latest[0], latest[1], latest[2])
FormatDate(tm) == Pad(tm[1], 4) \o "-" \o Pad(tm[2], 2) \o "-" \o Pad(tm[3], 2)

\* line 197 with <= in place of <
GetLatestReportDateLe(t) ==
    LET pst_time == gmtime(t - 8 * _HOURS)
    IN  IF pst_time[4] <= 12
        THEN FormatDate(gmtime(t - 8 * _HOURS - 2 * _DAYS))
        ELSE FormatDate(gmtime(t - 8 * _HOURS - 1 * _DAYS))

GetLatestReportDate(t) ==
    LET pst_time == gmtime(t - 8 * _HOURS)
    IN  IF pst_time[4] < 12
        THEN FormatDate(gmtime(t - 8 * _HOURS - 2 * _DAYS))
        ELSE FormatDate(gmtime(t - 8 * _HOURS - 1 * _DAYS))

\* one call of GetLatestReportDate at the instant t
LatestReportDate ==
    /\ latest = None
    /\ \E t \in NowSet :
          /\ now' = t
          /\ latest' = GetLatestReportDate(t)


(***************************************************************************)
(* src/reporting.py: ReportRequest, the errors, ReportRunner               *)
(***************************************************************************)
MaxCalls == 3       \* calls made on one ReportRunner

_AUTH_URL      == "https://www.google.com/accounts/ClientLogin"
_REPORTING_URL == "https://www.google.com" \o "/hosted/services/v1.0/reports/ReportingData"

\* '%s' % x
Str(x) == IF x = None THEN "None" ELSE x

\* '%i' % n
Decimal(n) == Pad(n, 1)

\* s.split(sep) for a separator of one character
RECURSIVE Split(_, _)
Split(s, sep) ==
    LET i == FindFrom(s, sep, 1)
    IN  IF i = 0 THEN <<s>>
        ELSE <<SubSeq(s, 1, i - 1)>> \o Split(SubSeq(s, i + 1, Len(s)), sep)

\* s.split(sep, max)
RECURSIVE SplitMax(_, _, _)
SplitMax(s, sep, max) ==
    LET i == FindFrom(s, sep, 1)
    IN  IF i = 0 \/ max = 0 THEN <<s>>
        ELSE <<SubSeq(s, 1, i - 1)>> \o SplitMax(SubSeq(s, i + 1, Len(s)), sep, max - 1)

\* s.rfind(c) as a 1-based place, 0 when c does not occur
RECURSIVE RFind(_, _, _)
RFind(s, c, i) ==
    IF i = 0 THEN 0 ELSE IF CharAt(s, i) = c THEN i ELSE RFind(s, c, i - 1)

\* ReportRequest.__init__
NewReportRequest ==
    [type |-> "Report", token |-> None, domain |-> None, date |-> None,
     report_type |-> "daily", report_name |-> None]

\* ReportRequest.ToXml
ToXml(q) ==
    "<?xml version=\"1.0\" encoding=\"UTF-8\"?>\n"
    \o "<rest xmlns=\"google:accounts:rest:protocol\"\n"
    \o "    xmlns:xsi=\"http://www.w3.org/2001/XMLSchema-instance\">\n"
    \o "  <type>" \o Str(q.type) \o "</type>\n"
    \o "  <token>" \o Str(q.token) \o "</token>\n"
    \o "  <domain>" \o Str(q.domain) \o "</domain>\n"
    \o "  <date>" \o Str(q.date) \o "</date>\n"
    \o "  <reportType>" \o Str(q.report_type) \o "</reportType>\n"
    \o "  <reportName>" \o Str(q.report_name) \o "</reportName>\n"
    \o "</rest>\n"

\* An exception: its class, its message, and the attributes of a ReportError.
NoExc == [kind |-> "none", message |-> None, fields |-> NewReportError]

LoginError(message) ==
    [kind |-> "LoginError", message |-> message, fields |-> NewReportError]

\* ConnectionError.__init__
ConnectionError(url, message) ==
    [kind |-> "ConnectionError",
     message |-> "URL connection error:\n" \o message
                 \o "\nwhile attempting to connect to: " \o url,
     fields |-> NewReportError]

\* the error GetReportData raises: ReportError() then FromXml(response)
ReportErrorFrom(response) ==
    [kind |-> "ReportError", message |-> "Error executing report",
     fields |-> FromXml(NewReportError, response)]

\* the unpacking of line 240 fails
ValueError ==
    [kind |-> "ValueError", message |-> "unpack", fields |-> NewReportError]

\* What urllib2.urlopen(url, data).read() does: the body, an HTTPError with a
\* status code, or a URLError with a reason.
Body(text)     == [kind |-> "ok", body |-> text, code |-> 0, reason |-> None]
HTTPError(c)   == [kind |-> "HTTPError", body |-> None, code |-> c, reason |-> None]
URLError(why)  == [kind |-> "URLError", body |-> None, code |-> 0, reason |-> why]

AuthOutcomes ==
    {Body("SID=abc123\nLSID=xyz\n"),
     Body("LSID=xyz\nSID=t2\n"),
     Body("SID=t2\nSID=abc123\n"),
     Body("Error=BadAuthentication\n"),
     Body("Error=BadAuthentication"),
     Body("SID=a=b\n"),
     Body(""),
     HTTPError(403),
     URLError("timed out")}

CsvText == "date,account_id,account_name\n20240309,1,alice\n"

ReportOutcomes ==
    {Body(CsvText), Body(ExampleDoc), Body("<?xm"),
     HTTPError(500), URLError("timed out")}

\* ReportRunner.__PostUrl(url, data), the transport doing `out`
PostUrl(url, out) ==
    IF out.kind = "HTTPError"
    THEN [exc |-> ConnectionError(_AUTH_URL, "HTTP Response Code: " \o Decimal(out.code)),
          value |-> None]
    ELSE IF out.kind = "URLError"
    THEN [exc |-> ConnectionError(_AUTH_URL, out.reason), value |-> None]
    ELSE [exc |-> NoExc, value |-> out.body]

\* ReportRunner.__init__
NewReportRunner ==
    [admin_email |-> None, admin_password |-> None, domain |-> None, token |-> None]

\* ReportRunner.GetAdminEmailDomain
GetAdminEmailDomain(r) ==
    IF r.admin_email # None /\ RFind(r.admin_email, "@", Len(r.admin_email)) > 0
    THEN SliceFrom(r.admin_email, RFind(r.admin_email, "@", Len(r.admin_email)))
    ELSE None

\* the loop of lines 239-244 over the lines that are left
RECURSIVE LoginLines(_, _)
LoginLines(r, lines) ==
    IF lines = <<>>
    THEN [exc |-> LoginError("Unable to get SID token from " \o _AUTH_URL), runner |-> r]
    ELSE LET parts == SplitMax(Head(lines), "=", 2)
         IN  IF Len(parts) # 2 THEN [exc |-> ValueError, runner |-> r]
             ELSE IF parts[1] = "SID"
                  THEN [exc |-> NoExc, runner |-> [r EXCEPT !.token = parts[2]]]
                  ELSE LoginLines(r, Tail(lines))

\* ReportRunner.Login, the authentication endpoint doing `out`
Login(r, out) ==
    LET auth_response == PostUrl(_AUTH_URL, out)
    IN  IF auth_response.exc.kind # "none"
        THEN [exc |-> auth_response.exc, runner |-> r]
        ELSE LoginLines(r, Split(auth_response.value, "\n"))

\* line 257 without the test of the prefix
GetReportDataNoTest(q, out) ==
    LET report_response == PostUrl(_REPORTING_URL, out)
    IN  [exc |-> report_response.exc, value |-> report_response.value]

\* ReportRunner.GetReportData(report_request), the reporting endpoint doing `out`
GetReportData(q, out) ==
    LET report_response == PostUrl(_REPORTING_URL, out)
    IN  IF report_response.exc.kind # "none"
        THEN [exc |-> report_response.exc, value |-> None]
        ELSE IF report_response.value # None /\ StartsWith(report_response.value, "<?xml")
        THEN [exc |-> ReportErrorFrom(report_response.value), value |-> None]
        ELSE [exc |-> NoExc, value |-> report_response.value]

\* ReportRunner.WriteReport: the new standard output and the new file
WriteReport(response, out_file_name, so, file) ==
    IF out_file_name = None
    THEN [stdout |-> Append(so, response), outfile |-> file]
    ELSE [stdout |-> so, outfile |-> response]

\* the transport was not asked
NotContacted == [kind |-> "not contacted", body |-> None, code |-> 0, reason |-> None]

\* What a call did: the method, the exception it ended with, the value it
\* returned, the requests it posted to the two endpoints with what came
\* back, and the XML it posted to the reporting endpoint.
NoCall ==
    [op |-> "new", exc |-> NoExc, ret |-> None, loginReqs |-> 0, reportReqs |-> 0,
     authOut |-> NotContacted, reportOut |-> NotContacted, posted |-> None]

\* RunReport without the test of line 285: it logs in on every call
RunReportAlwaysLogin(r, report_name, report_date, out_file_name, env, so, file) ==
    LET lg      == Login(r, env.auth)
        request == [NewReportRequest EXCEPT
                       !.token = lg.runner.token,
                       !.domain = IF r.domain # None THEN r.domain
                                  ELSE GetAdminEmailDomain(r),
                       !.report_name = report_name,
                       !.date = IF report_date = None
                                THEN GetLatestReportDate(env.now) ELSE report_date]
        data    == GetReportData(request, env.report)
        w       == WriteReport(data.value, out_file_name, so, file)
        base    == [NoCall EXCEPT !.op = "RunReport", !.loginReqs = 1, !.authOut = env.auth]
    IN  IF lg.exc.kind # "none"
        THEN [runner |-> lg.runner, stdout |-> so, outfile |-> file,
              call |-> [base EXCEPT !.exc = lg.exc]]
        ELSE IF data.exc.kind # "none"
        THEN [runner |-> lg.runner, stdout |-> so, outfile |-> file,
              call |-> [base EXCEPT !.exc = data.exc, !.reportReqs = 1,
                                    !.reportOut = env.report, !.posted = ToXml(request)]]
        ELSE [runner |-> lg.runner, stdout |-> w.stdout, outfile |-> w.outfile,
              call |-> [base EXCEPT !.reportReqs = 1, !.reportOut = env.report,
                                    !.posted = ToXml(request)]]

\* RunReport writing what the endpoint sent before it looks at the outcome
RunReportWriteFirst(r, report_name, report_date, out_file_name, env, so, file) ==
    LET needLogin == r.token = None
        lg      == IF needLogin THEN Login(r, env.auth) ELSE [exc |-> NoExc, runner |-> r]
        request == [NewReportRequest EXCEPT
                       !.token = lg.runner.token,
                       !.domain = IF r.domain # None THEN r.domain
                                  ELSE GetAdminEmailDomain(r),
                       !.report_name = report_name,
                       !.date = IF report_date = None
                                THEN GetLatestReportDate(env.now) ELSE report_date]
        data    == GetReportData(request, env.report)
        w       == WriteReport(Str(env.report.body), out_file_name, so, file)
        base    == [NoCall EXCEPT !.op = "RunReport",
                                  !.loginReqs = IF needLogin THEN 1 ELSE 0,
                                  !.authOut = IF needLogin THEN env.auth ELSE NotContacted]
    IN  IF lg.exc.kind # "none"
        THEN [runner |-> lg.runner, stdout |-> so, outfile |-> file,
              call |-> [base EXCEPT !.exc = lg.exc]]
        ELSE [runner |-> lg.runner, stdout |-> w.stdout, outfile |-> w.outfile,
              call |-> [base EXCEPT !.exc = data.exc, !.reportReqs = 1,
                                    !.reportOut = env.report, !.posted = ToXml(request)]]

\* ReportRunner.RunReport(report_name, report_date, out_file_name) on the
\* runner r, the endpoints doing env.auth and env.report, at the instant
\* env.now, with standard output so and the output file `file`.
RunReport(r, report_name, report_date, out_file_name, env, so, file) ==
    LET needLogin == r.token = None
        lg      == IF needLogin THEN Login(r, env.auth) ELSE [exc |-> NoExc, runner |-> r]
        request == [NewReportRequest EXCEPT
                       !.token = lg.runner.token,
                       !.domain = IF r.domain # None THEN r.domain
                                  ELSE GetAdminEmailDomain(r),
                       !.report_name = report_name,
                       !.date = IF report_date = None
                                THEN GetLatestReportDate(env.now) ELSE report_date]
        data    == GetReportData(request, env.report)
        w       == WriteReport(data.value, out_file_name, so, file)
        base    == [NoCall EXCEPT !.op = "RunReport",
                                  !.loginReqs = IF needLogin THEN 1 ELSE 0,
                                  !.authOut = IF needLogin THEN env.auth ELSE NotContacted]
    IN  IF lg.exc.kind # "none"
        THEN [runner |-> lg.runner, stdout |-> so, outfile |-> file,
              call |-> [base EXCEPT !.exc = lg.exc]]
        ELSE IF data.exc.kind # "none"
        THEN [runner |-> lg.runner, stdout |-> so, outfile |-> file,
              call |-> [base EXCEPT !.exc = data.exc, !.reportReqs = 1,
                                    !.reportOut = env.report, !.posted = ToXml(request)]]
        ELSE [runner |-> lg.runner, stdout |-> w.stdout, outfile |-> w.outfile,
              call |-> [base EXCEPT !.reportReqs = 1, !.reportOut = env.report,
                                    !.posted = ToXml(request)]]

ReportDates  == {None, "2024-03-09"}
OutFileNames == {None, "out.csv"}
RunInstants  == {19792 * 86400 + 19 * 3600}

\* What the surroundings of one RunReport call can do: the authentication
\* endpoint is asked only when the runner holds no token, the reporting
\* endpoint only when Login did not raise, the clock only without a date.
Envs(r, report_date) ==
    LET auths == IF r.token = None THEN AuthOutcomes ELSE {NotContacted}
        nows  == IF report_date = None THEN RunInstants ELSE {0}
        reports(a) == IF r.token = None /\ Login(r, a).exc.kind # "none"
                      THEN {NotContacted} ELSE ReportOutcomes
    IN  UNION {{[auth |-> a, report |-> rp, now |-> t] : rp \in reports(a), t \in nows} :
               a \in auths}

\* the caller sets the attributes of a new runner (as main does, lines 319-321)
Configure ==
    /\ ncalls = 0
    /\ runner = NewReportRunner
    /\ runner' = [NewReportRunner EXCEPT !.admin_email = "admin@example.com",
                                         !.admin_password = "pw"]
    /\ UNCHANGED <<call, ncalls, stdout, outfile>>

\* a call of Login()
CallLogin ==
    /\ ncalls < MaxCalls
    /\ \E out \in AuthOutcomes :
          LET res == Login(runner, out)
          IN  /\ runner' = res.runner
              /\ call' = [NoCall EXCEPT !.op = "Login", !.exc = res.exc,
                                        !.loginReqs = 1, !.authOut = out]
    /\ ncalls' = ncalls + 1
    /\ UNCHANGED <<stdout, outfile>>

\* a call of GetReportData(report_request) with a request that carries the
\* cached token
CallGetReportData ==
    /\ ncalls < MaxCalls
    /\ \E out \in ReportOutcomes \cup {Body(""), Body(" " \o ExampleDoc)} :
          LET request == [NewReportRequest EXCEPT
                             !.token = runner.token,
                             !.domain = GetAdminEmailDomain(runner),
                             !.report_name = "accounts",
                             !.date = "2024-03-09"]
              res == GetReportData(request, out)
          IN  call' = [NoCall EXCEPT !.op = "GetReportData", !.exc = res.exc,
                                     !.ret = res.value, !.reportReqs = 1,
                                     !.reportOut = out, !.posted = ToXml(request)]
    /\ ncalls' = ncalls + 1
    /\ UNCHANGED <<runner, stdout, outfile>>

\* a call of RunReport(report_name, report_date, out_file_name)
CallRunReport ==
    /\ ncalls < MaxCalls
    /\ \E d \in ReportDates, o \in OutFileNames : \E env \in Envs(runner, d) :
          LET res == RunReport(runner, "accounts", d, o, env, stdout, outfile)
          IN  /\ runner' = res.runner
              /\ call' = res.call
              /\ stdout' = res.stdout
              /\ outfile' = res.outfile
    /\ ncalls' = ncalls + 1

(***************************************************************************)
(* src/reporting.py: main                                                  *)
(***************************************************************************)
USAGE ==
    "_Usage: reporting.py --email=<email> --password=<password> "
    \o "[ --domain=<domain> ] --report=<report name> "
    \o "[ --date=<YYYY-MM-DD> ] [ --out=<file name> ]"

\* What getopt.getopt makes of the command line: error is GetoptError (an
\* unknown flag, a flag without its value); otherwise opts.get(flag) for the
\* six flags, None for a flag that was not given.
NoOpts ==
    [error |-> FALSE, email |-> None, password |-> None, domain |-> None,
     report |-> None, date |-> None, out |-> None]

DateArgs ==
    {None, "", "2024-03-10", "2024-03-10x", "2024-3-10", "20240310",
     "x2024-03-10", "2024-03-1", "abcd-ef-gh"}

OptsSet ==
    {[NoOpts EXCEPT !.error = TRUE]} \cup
    [error : {FALSE}, email : {None, "", "admin@example.com"},
     password : {None, "", "pw"}, domain : {None, "example.com"},
     report : {None, "", "accounts"}, date : DateArgs, out : OutFileNames]

\* re.compile('\d{4}-\d{2}-\d{2}').match(s) is not None
DateMatch(s) ==
    /\ Len(s) >= 10
    /\ AllDigits(SubSeq(s, 1, 4)) /\ CharAt(s, 5) = "-"
    /\ AllDigits(SubSeq(s, 6, 7)) /\ CharAt(s, 8) = "-"
    /\ AllDigits(SubSeq(s, 9, 10))

\* "not x" of a string or None
Not(x) == x = None \/ x = ""

\* the test of lines 325-327
BadArgs(o) ==
    \/ Not(o.email) \/ Not(o.password) \/ Not(o.report)
    \/ (o.date # None /\ ~DateMatch(o.date))

\* one run of main() in a new process
Main ==
    /\ exit = <<>>
    /\ \E o \in OptsSet : \E env \in Envs(NewReportRunner, o.date) :
          /\ opts' = o
          /\ IF o.error
             THEN /\ stdout' = Append(stdout, USAGE)
                  /\ exit' = <<2>>
                  /\ UNCHANGED <<runner, call, ncalls, outfile>>
             ELSE LET r == [NewReportRunner EXCEPT
                               !.admin_email = o.email,
                               !.admin_password = o.password,
                               !.domain = o.domain]
                      res == RunReport(r, o.report, o.date, o.out, env, stdout, outfile)
                  IN  IF BadArgs(o)
                      THEN /\ runner' = r
                           /\ stdout' = Append(stdout, USAGE)
                           /\ exit' = <<2>>
                           /\ UNCHANGED <<call, ncalls, outfile>>
                      ELSE /\ runner' = res.runner
                           /\ call' = res.call
                           /\ ncalls' = ncalls + 1
                           /\ stdout' = res.stdout
                           /\ outfile' = res.outfile
                           /\ exit' = IF res.call.exc.kind = "none" THEN <<0>> ELSE <<1>>


InitScan ==
    /\ spc = "start" /\ wList = <<>> /\ warned = FALSE /\ row = NoRow
    /\ printed = FALSE /\ output = <<>> /\ nrows = 0
InitRunner ==
    /\ runner = NewReportRunner /\ call = NoCall /\ ncalls = 0
    /\ stdout = <<>> /\ outfile = Absent
InitMain ==
    /\ opts = NoOpts /\ exit = <<>>
InitXml ==
    /\ xml = None /\ err = NewReportError
InitDate ==
    /\ now = 0 /\ latest = None

Init == InitScan /\ InitRunner /\ InitMain /\ InitXml /\ InitDate

NextScan ==
    \/ (LoadWhiteList /\ UNCHANGED <<runnerVars, mainVars, xmlVars, dateVars>>)
    \/ (ReadRow /\ UNCHANGED <<runnerVars, mainVars, xmlVars, dateVars>>)
    \/ (CheckRow /\ UNCHANGED <<runnerVars, mainVars, xmlVars, dateVars>>)
    \/ (NextRow /\ UNCHANGED <<runnerVars, mainVars, xmlVars, dateVars>>)
    \/ (EndOfFile /\ UNCHANGED <<runnerVars, mainVars, xmlVars, dateVars>>)

SpecScan == Init /\ [][NextScan]_vars

NextXml ==
    DecodeError /\ UNCHANGED <<scanVars, runnerVars, mainVars, dateVars>>

SpecXml == Init /\ [][NextXml]_vars

NextDate ==
    LatestReportDate /\ UNCHANGED <<scanVars, runnerVars, mainVars, xmlVars>>

SpecDate == Init /\ [][NextDate]_vars

NextRunner ==
    \/ (Configure /\ UNCHANGED <<scanVars, mainVars, xmlVars, dateVars>>)
    \/ (CallLogin /\ UNCHANGED <<scanVars, mainVars, xmlVars, dateVars>>)
    \/ (CallGetReportData /\ UNCHANGED <<scanVars, mainVars, xmlVars, dateVars>>)
    \/ (CallRunReport /\ UNCHANGED <<scanVars, mainVars, xmlVars, dateVars>>)

SpecRunner == Init /\ [][NextRunner]_vars

NextMain ==
    Main /\ UNCHANGED <<scanVars, xmlVars, dateVars>>

SpecMain == Init /\ [][NextMain]_vars

\* A behaviour is one run of one program or of one entry point: the scan of
\* data.py, a ReportRunner driven by its caller, the command line of
\* reporting.py, one decoding of an error document, one computation of the
\* latest report date.
Next ==
    \/ (InitRunner /\ InitMain /\ InitXml /\ InitDate /\ NextScan)
    \/ (InitScan /\ InitMain /\ InitXml /\ InitDate /\ NextRunner)
    \/ (InitScan /\ InitXml /\ InitDate /\ (runner = NewReportRunner) /\ NextMain)
    \/ (InitScan /\ InitRunner /\ InitMain /\ InitDate /\ NextXml)
    \/ (InitScan /\ InitRunner /\ InitMain /\ InitXml /\ NextDate)

Spec == Init /\ [][Next]_vars

(***************************************************************************)
(* Calendar arithmetic used to state the properties                        *)
(***************************************************************************)
IsLeap(y) == (y % 4 = 0 /\ y % 100 # 0) \/ y % 400 = 0

DaysInMonth(y, m) ==
    IF m = 2 THEN (IF IsLeap(y) THEN 29 ELSE 28)
    ELSE IF m \in {4, 6, 9, 11} THEN 30 ELSE 31

ValidYmd(y, m, d) == m \in 1..12 /\ d >= 1 /\ d <= DaysInMonth(y, m)

\* days from 1970-01-01 to the civil date y-m-d (proleptic Gregorian)
DayNumber(y, m, d) ==
    LET yy  == IF m <= 2 THEN y - 1 ELSE y
        era == yy \div 400
        yoe == yy - era * 400
        mp  == IF m > 2 THEN m - 3 ELSE m + 9
        doy == (153 * mp + 2) \div 5 + d - 1
        doe == yoe * 365 + yoe \div 4 - yoe \div 100 + doy
    IN  era * 146097 + doe - 719468

\* a field of eight digits, read as one number YYYYMMDD
WellFormed(f) == Len(f) = 8 /\ AllDigits(f)
FieldYear(f)  == IntOf(f) \div 10000
FieldMonth(f) == (IntOf(f) \div 100) % 100
FieldDay(f)   == IntOf(f) % 100
FieldValid(f) == WellFormed(f) /\ ValidYmd(FieldYear(f), FieldMonth(f), FieldDay(f))
FieldDayNumber(f) == DayNumber(FieldYear(f), FieldMonth(f), FieldDay(f))

(***************************************************************************)
(* Properties of src/data.py                                               *)
(***************************************************************************)

\* C5: for a row whose fields 0 and 10 are well-formed YYYYMMDD values, the
\* account of field 2 is printed if and only if (report year - login year >= 1
\* or report month - login month >= 1 or report day - login day >= 6) and the
\* account is not in the allow-list; an allow-listed account is never printed,
\* a row whose field 0 renders to "date--" is never printed, and the decision
\* is the same whatever rows were scanned before.
C5_ScanDecision ==
    spc = "checked" =>
        /\ (WellFormed(row.f0) /\ WellFormed(row.f10)) =>
              (printed <=>
                  /\ \/ FieldYear(row.f0) - FieldYear(row.f10) >= 1
                     \/ FieldMonth(row.f0) - FieldMonth(row.f10) >= 1
                     \/ FieldDay(row.f0) - FieldDay(row.f10) >= 6
                  /\ \A i \in 1..Len(wList) : wList[i] # row.f2)
        /\ (\E i \in 1..Len(wList) : wList[i] = row.f2) => ~printed
        /\ row.f0 = "date" => ~printed
        /\ printed => (Len(output) > 0 /\ output[Len(output)] = row.f2)
        /\ Len(output) <= nrows
        /\ (~printed /\ nrows = 1) => output = <<>>

\* a second row, six days after the login in the same month, is printed while
\* "bob" is allow-listed and an earlier row was printed too
C5_Witness ==
    /\ spc = "checked" /\ printed /\ nrows = 2
    /\ row.f0 = "20240307" /\ row.f10 = "20240301" /\ row.f2 = "alice"
    /\ wList = <<"bob">>
    /\ Len(output) = 2

\* C10: a row with valid calendar dates whose last login is at least six
\* calendar days before the report date, for an account that is not in the
\* allow-list, is printed.
C10_NoFalseNegative ==
    (/\ spc = "checked"
     /\ FieldValid(row.f0) /\ FieldValid(row.f10)
     /\ FieldDayNumber(row.f10) + 6 <= FieldDayNumber(row.f0)
     /\ \A i \in 1..Len(wList) : wList[i] # row.f2)
    => printed

\* the login of 2023-02-28 is exactly six calendar days before the report of
\* 2023-03-06, with a negative day difference
C10_Witness ==
    /\ spc = "checked" /\ printed
    /\ row.f0 = "20230306" /\ row.f10 = "20230228"
    /\ FieldDayNumber(row.f0) - FieldDayNumber(row.f10) = 6
    /\ dayDiff(row) < 0

(***************************************************************************)
(* Properties of ReportError.FromXml                                       *)
(***************************************************************************)
FieldTags ==
    [status |-> "status", reason |-> "reason", extended_message |-> "extendedMessage",
     result |-> "result", type |-> "type"]

\* the places of the document s at which the text p stands
Places(s, p) == {i \in 1..(Len(s) - Len(p) + 1) : SubSeq(s, i, i + Len(p) - 1) = p}

Least(S) == CHOOSE i \in S : \A k \in S : i <= k

\* the text from place i up to the next "<" (to the end when none follows)
TextAt(s, i) ==
    LET lts == {j \in Places(s, "<") : j >= i}
    IN  IF lts = {} THEN SubSeq(s, i, Len(s)) ELSE SubSeq(s, i, Least(lts) - 1)

\* C7 as stated: every field is the text content of the first tag of its
\* name (where that tag's content is ended by a "<"), and None when the
\* document holds no tag of that name.
C7_Original ==
    xml # None =>
        \A f \in DOMAIN FieldTags :
            LET open == "<" \o FieldTags[f] \o ">"
                occ  == Places(xml, open)
            IN  IF occ = {} THEN err[f] = None
                ELSE (\E j \in Places(xml, "<") : j >= Least(occ) + Len(open))
                        => err[f] = TextAt(xml, Least(occ) + Len(open))

\* C7 amended: every field is the text between the first occurrence of the
\* characters "<name>" minus the "<" (that is "name>", which also ends a closing
\* tag and any longer tag name) that has a "<" after it and the next "<"; it
\* is None when no "name>" is followed by a "<". The document
\* <status>500</status><reason>Quota</reason> gives status "500", reason "Quota"
\* and None for the other three.
C7_FromXmlSuffixMatch ==
    xml # None =>
        /\ \A f \in DOMAIN FieldTags :
              LET lit == FieldTags[f] \o ">"
                  occ == {i \in Places(xml, lit) :
                             \E j \in Places(xml, "<") : j >= i + Len(lit)}
              IN  IF occ = {} THEN err[f] = None
                  ELSE err[f] = TextAt(xml, Least(occ) + Len(lit))
        /\ xml = ExampleDoc =>
              err = [status |-> "500", reason |-> "Quota", extended_message |-> None,
                     result |-> None, type |-> None]

\* a document with two status tags and a content-type tag but no type tag:
\* the first status is taken, and type is taken from content-type
C7_Witness ==
    /\ xml = "<status>500</status>" \o "<status>400</status>" \o "<content-type>csv</content-type>"
    /\ err.status = "500"
    /\ err.type = "csv"
    /\ err.reason = None

(***************************************************************************)
(* Properties of ReportRunner.GetLatestReportDate                          *)
(***************************************************************************)
\* a date string YYYY-MM-DD read back as numbers
IsDateString(s) ==
    /\ Len(s) = 10 /\ CharAt(s, 5) = "-" /\ CharAt(s, 8) = "-"
    /\ AllDigits(SubSeq(s, 1, 4)) /\ AllDigits(SubSeq(s, 6, 7)) /\ AllDigits(SubSeq(s, 9, 10))
DateStringDayNumber(s) ==
    DayNumber(IntOf(SubSeq(s, 1, 4)), IntOf(SubSeq(s, 6, 7)), IntOf(SubSeq(s, 9, 10)))

\* C8: with shifted = now - 8 hours, the date returned is the calendar date
\* two days before shifted's when shifted's hour of day is below 12, and one
\* day before it otherwise; it is a valid date, 1 or 2 days before the UTC-8
\* date of now, never that date or a later one. At 19:00 UTC of 2024-03-10 it
\* is "2024-03-08", at 21:00 UTC it is "2024-03-09".
C8_LatestReportDate ==
    latest # None =>
        LET shifted == now - 8 * 3600
            sday    == shifted \div 86400
            hour    == (shifted - sday * 86400) \div 3600
        IN  /\ IsDateString(latest)
            /\ ValidYmd(IntOf(SubSeq(latest, 1, 4)), IntOf(SubSeq(latest, 6, 7)),
                        IntOf(SubSeq(latest, 9, 10)))
            /\ DateStringDayNumber(latest) = IF hour < 12 THEN sday - 2 ELSE sday - 1
            /\ sday - DateStringDayNumber(latest) \in {1, 2}
            /\ now = 19792 * 86400 + 19 * 3600 => latest = "2024-03-08"
            /\ now = 19792 * 86400 + 21 * 3600 => latest = "2024-03-09"

\* 19:59:59 UTC of 2024-03-01 is 11:59:59 in UTC-8: the report of two days
\* before, across the end of a leap February
C8_Witness ==
    /\ now = 19783 * 86400 + 19 * 3600 + 3599
    /\ latest = "2024-02-28"

(***************************************************************************)
(* Properties of ReportRunner and main                                     *)
(***************************************************************************)
XmlPrefix == "<?xml"

\* the text s begins with the XML declaration prefix
BeginsWithXml(s) ==
    Len(s) >= Len(XmlPrefix) /\ \A i \in 1..Len(XmlPrefix) : CharAt(s, i) = CharAt(XmlPrefix, i)

EndsWith(s, p) == Len(s) >= Len(p) /\ SubSeq(s, Len(s) - Len(p) + 1, Len(s)) = p

Contains(s, p) == Places(s, p) # {}

\* C1: when the reporting endpoint returns a text, GetReportData raises a
\* ReportError populated from it (and returns nothing) if the text begins
\* with "<?xml", and otherwise returns the text verbatim without raising; no
\* call raises a ReportError for a response that does not begin with "<?xml".
C1_XmlPrefixDiscriminates ==
    /\ (call.op = "GetReportData" /\ call.reportOut.kind = "ok") =>
          IF BeginsWithXml(call.reportOut.body)
          THEN /\ call.exc.kind = "ReportError"
               /\ call.ret = None
               /\ call.exc.fields = FromXml(NewReportError, call.reportOut.body)
          ELSE /\ call.exc.kind = "none"
               /\ call.ret = call.reportOut.body
    /\ call.exc.kind = "ReportError" =>
          (call.reportOut.kind = "ok" /\ BeginsWithXml(call.reportOut.body))

\* GetReportData raised the ReportError decoded from the example document
C1_Witness ==
    /\ call.op = "GetReportData"
    /\ call.reportOut.body = ExampleDoc
    /\ call.exc.kind = "ReportError"
    /\ call.exc.fields.status = "500" /\ call.exc.fields.reason = "Quota"

\* the value of the first line of the body whose key is SID, <<>> when there
\* is no such line
FirstSid(body) ==
    LET lines == Split(body, "\n")
        sids  == {i \in 1..Len(lines) : StartsWith(lines[i], "SID=")}
    IN  IF sids = {} THEN <<>> ELSE <<SliceFrom(lines[Least(sids)], 4)>>

\* C2 as stated: after Login got a response body, the cached token is the
\* value of the first line whose key is SID, and when no line has that key
\* Login fails with LoginError and with no other kind of failure.
C2_LoginParsesBody ==
    (call.op = "Login" /\ call.authOut.kind = "ok") =>
        IF FirstSid(call.authOut.body) # <<>>
        THEN call.exc.kind = "none" /\ runner.token = FirstSid(call.authOut.body)[1]
        ELSE call.exc.kind = "LoginError"

\* C3: a RunReport call posts a login request exactly when the cached token
\* is None as the call starts; a token, once cached, stays cached, so no
\* later RunReport logs in again; and the request a RunReport call posts
\* carries the cached token, which is not None.
C3_step ==
    /\ runner.token # None => runner'.token # None
    /\ (call'.op = "RunReport" /\ ncalls' = ncalls + 1) =>
          /\ call'.loginReqs = (IF runner.token = None THEN 1 ELSE 0)
          /\ runner.token # None => runner'.token = runner.token
          /\ call'.posted # None =>
                /\ runner'.token # None
                /\ Contains(call'.posted, "<token>" \o runner'.token \o "</token>")
\* C3: every step of the runner keeps the lazy-login rule above
C3_LazyLogin == [][C3_step]_vars

\* the third call, a RunReport after a successful login and a failed fetch,
\* posts a report request with the cached token and no login request
C3_Witness ==
    /\ ncalls = 3 /\ call.op = "RunReport"
    /\ call.loginReqs = 0 /\ call.reportReqs = 1
    /\ runner.token = "t2"
    /\ Contains(call.posted, "<token>t2</token>")

\* C4 as stated: a ConnectionError carries the URL of the endpoint that was
\* being contacted: the reporting URL when the report request failed, the
\* authentication URL when the login request failed.
C4_ConnectionErrorUrl ==
    call.exc.kind = "ConnectionError" =>
        IF call.reportOut.kind # "not contacted"
        THEN EndsWith(call.exc.message, "while attempting to connect to: " \o _REPORTING_URL)
        ELSE EndsWith(call.exc.message, "while attempting to connect to: " \o _AUTH_URL)

\* the value of --date is four digits, a dash, two digits, a dash, two digits
IsYyyyMmDd(s) ==
    /\ Len(s) = 10
    /\ \A i \in {1, 2, 3, 4, 6, 7, 9, 10} : CharAt(s, i) \in Digits
    /\ CharAt(s, 5) = "-" /\ CharAt(s, 8) = "-"

\* C6 as stated: main prints the usage and exits with status 2 without any
\* request whenever a flag is unknown, --email, --password or --report is
\* missing or empty, or --date is given and is not of the form YYYY-MM-DD;
\* only otherwise is RunReport invoked.
C6_UsageOnBadArgs ==
    exit # <<>> =>
        IF \/ opts.error
           \/ opts.email \in {None, ""} \/ opts.password \in {None, ""}
           \/ opts.report \in {None, ""}
           \/ (opts.date # None /\ ~IsYyyyMmDd(opts.date))
        THEN /\ exit = <<2>>
             /\ stdout = <<USAGE>>
             /\ call.op = "new" /\ call.loginReqs = 0 /\ call.reportReqs = 0
        ELSE call.op = "RunReport"

\* C9: a RunReport call that ends with LoginError, ConnectionError or
\* ReportError leaves standard output and the output file as they were; a
\* failed login leaves the token None and a failed fetch leaves the token as
\* Login left it; a call posts at most one login and one report request; and
\* a call that ends without an exception has written the fetched text.
C9_step ==
    (call'.op = "RunReport" /\ ncalls' = ncalls + 1) =>
        /\ call'.loginReqs <= 1 /\ call'.reportReqs <= 1
        /\ call'.exc.kind \in {"LoginError", "ConnectionError", "ReportError"} =>
              /\ stdout' = stdout
              /\ outfile' = outfile
              /\ call'.reportReqs = 0 => (runner.token = None /\ runner'.token = None)
              /\ (call'.reportReqs = 1 /\ call'.loginReqs = 0) => runner'.token = runner.token
        /\ call'.exc.kind = "none" =>
              /\ call'.reportOut.kind = "ok"
              /\ \/ (stdout' = Append(stdout, call'.reportOut.body) /\ outfile' = outfile)
                 \/ (stdout' = stdout /\ outfile' = call'.reportOut.body)
\* C9: every RunReport step writes only after a fetch that succeeded
C9_WriteAfterFetch == [][C9_step]_vars

\* a RunReport call failed with a ReportError after earlier calls had written
\* to standard output and to the file
C9_Witness ==
    /\ ncalls = 3 /\ call.op = "RunReport" /\ call.exc.kind = "ReportError"
    /\ stdout = <<CsvText>> /\ outfile = CsvText

====
